---- MODULE Spec2Model ----
(***************************************************************************)
(* The database-handle layer of dqlite (src/c/src/db.c): struct dqlite__db *)
(* wraps one SQLite connection, owns a registry of prepared statements,    *)
(* tracks the in_a_tx flag and maintains the transaction refcount stored   *)
(* on the in-memory file object shared by every connection to that file.   *)
(*                                                                         *)
(* Every Database lives in one single-threaded process: calls run to       *)
(* completion one after the other, and a failed assert() ends the process. *)
(*                                                                         *)
(* Two specifications share the variables:                                 *)
(*   Spec        one Database under every operation of db.c;               *)
(*   SpecShared  every Database of DBs on the one storage file, under the  *)
(*               lifecycle and transaction operations.                     *)
(***************************************************************************)
EXTENDS Integers, Sequences, FiniteSets, TLC

\* ---------------------------------------------------------------- bounds
\* Number of struct dqlite__db objects opened on the same storage file.
NumDb == 2
\* Largest number of entries a statement registry holds at once.
MaxStmts == 2
\* How far below zero the model follows tx_refcount.
MaxUnderflow == 1

DBs == 1..NumDb
Ids == 0..(MaxStmts - 1)

\* ------------------------------------------------------- engine vocabulary
SQLITE_OK == "SQLITE_OK"
SQLITE_ERROR == "SQLITE_ERROR"
SQLITE_BUSY == "SQLITE_BUSY"
SQLITE_NOMEM == "SQLITE_NOMEM"
\* The non-OK codes an engine call answers with in the model.
FailCodes == {SQLITE_ERROR, SQLITE_BUSY}
\* "Return code" of a call that never returned: the process ended inside it.
ABORTED == "ABORTED"

\* A NULL sqlite3_stmt pointer; compiled statements are numbered from 1.
NullStmt == 0
\* Result of a lookup that found nothing (a NULL struct dqlite__stmt pointer).
NotFound == -1

VARIABLES
    life,        \* life[d]: "init" (after dqlite__db_init), "open" (dqlite__db_open
                 \*   returned SQLITE_OK), "closed" (after dqlite__db_close)
    dbh,         \* db->db: "unset" (never assigned), "NULL", "conn" (a usable
                 \*   connection), "bad" (handle left by a failed sqlite3_open_v2)
    in_a_tx,     \* db->in_a_tx, 0 or 1
    etx,         \* engine side: the connection has a transaction open
    tx_refcount, \* file->content->tx_refcount of the shared storage file
    stmts,       \* db->stmts: the live struct dqlite__stmt objects of the registry,
                 \*   each [id |-> its ID, stmt |-> its compiled statement]
    estmts,      \* engine side: the compiled statements of the connection that
                 \*   were not finalized yet
    error,       \* db->error, a text (sequence of pieces), <<>> when empty
    last,        \* the last call made: what it was given and what it returned
    failed       \* "none", or the assertion / fault that ended the process

vars == <<life, dbh, in_a_tx, etx, tx_refcount, stmts, estmts, error, last, failed>>

\* ------------------------------------------------------------ error context
\* sqlite3_errmsg(db->db): the engine's text for its latest failure.
sqlite3_errmsg == <<"sqlite3_errmsg">>

\* dqlite__error_printf(e, msg): the context now holds msg.
dqlite__error_printf(msg) == msg

\* dqlite__error_wrapf(e, cause, prefix): the prefix, then the cause's text.
dqlite__error_wrapf(cause, prefix) == prefix \o <<": ">> \o cause

\* What a "%s" conversion with no matching argument prints when reading the
\* argument slot does not end the process.
MissingArg == "(junk)"

\* ------------------------------------------------------------------ engine
\* sqlite3_exec of sql on a connection whose transaction state is tx: the
\* answers [rc, tx] the engine can give.  BEGIN is refused inside a
\* transaction and COMMIT / ROLLBACK outside one; any statement may fail for
\* another reason, and a failed COMMIT or ROLLBACK may leave the transaction
\* open or have rolled it back.
sqlite3_exec(sql, tx) ==
    CASE sql = "BEGIN" ->
           IF tx THEN {[rc |-> SQLITE_ERROR, tx |-> TRUE]}
           ELSE {[rc |-> SQLITE_OK, tx |-> TRUE]}
                \cup {[rc |-> r, tx |-> FALSE] : r \in FailCodes}
      [] sql \in {"COMMIT", "ROLLBACK"} ->
           IF ~tx THEN {[rc |-> SQLITE_ERROR, tx |-> FALSE]}
           ELSE {[rc |-> SQLITE_OK, tx |-> FALSE]}
                \cup {[rc |-> r, tx |-> t] : r \in FailCodes, t \in BOOLEAN}
      [] OTHER ->
           {[rc |-> r, tx |-> tx] : r \in {SQLITE_OK} \cup FailCodes}

\* dqlite__db_exec(db, sql): runs sql; on failure db->error takes the engine's
\* message.  The answers [rc, tx, error].
dqlite__db_exec(d, sql) ==
    {[rc |-> o.rc, tx |-> o.tx,
      error |-> IF o.rc # SQLITE_OK
                THEN dqlite__error_printf(sqlite3_errmsg)
                ELSE error[d]] : o \in sqlite3_exec(sql, etx[d])}

\* ------------------------------------------------------------ call records
\* IDs of the live statements of Database d.
LiveIds(d) == {stmts[d][k].id : k \in 1..Len(stmts[d])}

\* No successful begin directly before the call.
NoBegin == [ok |-> FALSE, pre_ref |-> 0]

NoCall == [op |-> "none", db |-> 0, rc |-> SQLITE_OK, erc |-> "-", pre_tx |-> 0,
           pre_ref |-> 0, pre_ids |-> {}, id |-> NotFound, held |-> FALSE,
           steps |-> <<>>, began |-> NoBegin]

\* The record of a call op on Database d that returned rc after the engine
\* answered erc ("-" when the engine was not asked).  pre_tx, pre_ref and
\* pre_ids are in_a_tx, tx_refcount and the live IDs as the call found them;
\* began tells whether the call made just before this one was a successful
\* begin on the same Database that found in_a_tx 0, and the refcount it found.
Call(op, d, rc, erc) ==
    [op |-> op, db |-> d, rc |-> rc, erc |-> erc, pre_tx |-> in_a_tx[d],
     pre_ref |-> tx_refcount, pre_ids |-> LiveIds(d), id |-> NotFound,
     held |-> FALSE, steps |-> <<>>,
     began |-> IF /\ last.op = "begin" /\ last.db = d
                    /\ last.rc = SQLITE_OK /\ last.pre_tx = 0
               THEN [ok |-> TRUE, pre_ref |-> last.pre_ref]
               ELSE NoBegin]

Running == failed = "none"
Usable(d) == life[d] = "open"

\* --------------------------------------------------------------- lifecycle
\* Every Database right after dqlite__db_init: empty error, empty registry,
\* in_a_tx 0; db->db is not assigned.
Init ==
    /\ life = [d \in DBs |-> "init"]
    /\ dbh = [d \in DBs |-> "unset"]
    /\ in_a_tx = [d \in DBs |-> 0]
    /\ etx = [d \in DBs |-> FALSE]
    /\ tx_refcount = 0
    /\ stmts = [d \in DBs |-> <<>>]
    /\ estmts = [d \in DBs |-> {}]
    /\ error = [d \in DBs |-> <<>>]
    /\ last = NoCall
    /\ failed = "none"

\* -------------------------------------------------------------------- open
\* The calls dqlite__db_open makes, in the order it makes them.
OpenSteps == <<"sqlite3_open_v2", "sqlite3_extended_result_codes",
               "PRAGMA page_size=4096", "PRAGMA synchronous=OFF",
               "PRAGMA journal_mode=WAL", "sqlite3_wal_replication_leader",
               "PRAGMA foreign_keys=1">>

\* The steps whose failure format holds a "%s" that no argument matches.
UnmatchedFormat == {5, 7}

\* db->error after step i of dqlite__db_open failed.
OpenError(i) ==
    CASE i \in {1, 2} -> dqlite__error_printf(sqlite3_errmsg)
      [] i = 3 -> dqlite__error_wrapf(dqlite__error_printf(sqlite3_errmsg),
                                      <<"unable to set page size">>)
      [] i = 4 -> dqlite__error_wrapf(dqlite__error_printf(sqlite3_errmsg),
                                      <<"unable to switch off syncs">>)
      [] i = 5 -> dqlite__error_wrapf(dqlite__error_printf(sqlite3_errmsg),
                                      <<"unable to set WAL mode: ", MissingArg>>)
      [] i = 6 -> dqlite__error_printf(<<"unable to set WAL replication">>)
      [] i = 7 -> dqlite__error_wrapf(dqlite__error_printf(sqlite3_errmsg),
                                      <<"unable to set foreign keys checks: ", MissingArg>>)

\* Runs the steps from i on: each step may succeed or fail, and the first
\* failure sets db->error and returns its code.  The outcomes
\* [rc, erc, steps, error, fault]: erc is the engine's answer to the last
\* call made, steps lists the calls made; fault tells that reading the
\* missing "%s" argument ended the process.
RECURSIVE OpenRun(_, _, _)
OpenRun(d, i, done) ==
    IF i > Len(OpenSteps)
    THEN {[rc |-> SQLITE_OK, erc |-> SQLITE_OK, steps |-> done, error |-> error[d],
           fault |-> FALSE]}
    ELSE LET now == Append(done, OpenSteps[i])
         IN  OpenRun(d, i + 1, now)
             \cup {[rc |-> r, erc |-> r, steps |-> now, error |-> OpenError(i),
                    fault |-> FALSE] : r \in FailCodes}
             \cup (IF i \in UnmatchedFormat
                   THEN {[rc |-> ABORTED, erc |-> r, steps |-> now,
                          error |-> dqlite__error_printf(sqlite3_errmsg),
                          fault |-> TRUE] : r \in FailCodes}
                   ELSE {})

dqlite__db_open(d) ==
    /\ Running
    /\ life[d] = "init"
    /\ dbh[d] = "unset"
    /\ \E o \in OpenRun(d, 1, <<>>) :
       \E h \in IF Len(o.steps) = 1 THEN {"bad", "NULL"} ELSE {"conn"} :
         /\ dbh' = [dbh EXCEPT ![d] = h]
         /\ life' = [life EXCEPT ![d] = IF o.rc = SQLITE_OK THEN "open" ELSE @]
         /\ error' = [error EXCEPT ![d] = o.error]
         /\ failed' = IF o.fault THEN "fault: %s without argument" ELSE failed
         /\ last' = [Call("open", d, o.rc, o.erc) EXCEPT !.steps = o.steps]
    /\ UNCHANGED <<in_a_tx, etx, tx_refcount, stmts, estmts>>

\* Faulty variant of dqlite__db_update_tx_refcount: "=" written for "+=".
update_tx_refcount_assigns(delta) == delta

\* ------------------------------------------------------------ transactions
\* dqlite__db_update_tx_refcount(db, delta)
dqlite__db_update_tx_refcount(delta) == tx_refcount + delta

\* Faulty variant of dqlite__db_begin: the assertion on in_a_tx is compiled out.
begin_without_assert(d) ==
    /\ Running
    /\ Usable(d)
    /\ \E o \in dqlite__db_exec(d, "BEGIN") :
         /\ etx' = [etx EXCEPT ![d] = o.tx]
         /\ error' = [error EXCEPT ![d] = o.error]
         /\ IF o.rc # SQLITE_OK
            THEN /\ last' = Call("begin", d, o.rc, o.rc)
                 /\ UNCHANGED <<in_a_tx, tx_refcount, failed>>
            ELSE /\ in_a_tx' = [in_a_tx EXCEPT ![d] = 1]
                 /\ tx_refcount' = dqlite__db_update_tx_refcount(1)
                 /\ last' = Call("begin", d, SQLITE_OK, o.rc)
                 /\ UNCHANGED failed
    /\ UNCHANGED <<life, dbh, stmts, estmts>>

dqlite__db_begin(d) ==
    /\ Running
    /\ Usable(d)
    /\ \E o \in dqlite__db_exec(d, "BEGIN") :
         /\ etx' = [etx EXCEPT ![d] = o.tx]
         /\ error' = [error EXCEPT ![d] = o.error]
         /\ IF o.rc # SQLITE_OK
            THEN /\ last' = Call("begin", d, o.rc, o.rc)
                 /\ UNCHANGED <<in_a_tx, tx_refcount, failed>>
            ELSE IF in_a_tx[d] # 0
            THEN /\ failed' = "assert(db->in_a_tx == 0)"
                 /\ last' = Call("begin", d, ABORTED, o.rc)
                 /\ UNCHANGED <<in_a_tx, tx_refcount>>
            ELSE /\ in_a_tx' = [in_a_tx EXCEPT ![d] = 1]
                 /\ tx_refcount' = dqlite__db_update_tx_refcount(1)
                 /\ last' = Call("begin", d, SQLITE_OK, o.rc)
                 /\ UNCHANGED failed
    /\ UNCHANGED <<life, dbh, stmts, estmts>>

\* Faulty variant of dqlite__db_commit: a refused COMMIT still clears the flag and
\* gives the transaction reference back, as rollback does.
commit_clears_on_error(d) ==
    /\ Running
    /\ Usable(d)
    /\ \E o \in dqlite__db_exec(d, "COMMIT") :
         /\ etx' = [etx EXCEPT ![d] = o.tx]
         /\ error' = [error EXCEPT ![d] = o.error]
         /\ IF o.rc # SQLITE_OK
            THEN IF o.rc = SQLITE_BUSY
                 THEN /\ failed' = "assert(rc != SQLITE_BUSY)"
                      /\ last' = Call("commit", d, ABORTED, o.rc)
                      /\ UNCHANGED <<in_a_tx, tx_refcount>>
                 ELSE /\ in_a_tx' = [in_a_tx EXCEPT ![d] = 0]
                      /\ tx_refcount' = dqlite__db_update_tx_refcount(-1)
                      /\ last' = Call("commit", d, o.rc, o.rc)
                      /\ UNCHANGED failed
            ELSE IF in_a_tx[d] # 1
            THEN /\ failed' = "assert(db->in_a_tx == 1)"
                 /\ last' = Call("commit", d, ABORTED, o.rc)
                 /\ UNCHANGED <<in_a_tx, tx_refcount>>
            ELSE /\ in_a_tx' = [in_a_tx EXCEPT ![d] = 0]
                 /\ tx_refcount' = dqlite__db_update_tx_refcount(-1)
                 /\ last' = Call("commit", d, SQLITE_OK, o.rc)
                 /\ UNCHANGED failed
    /\ UNCHANGED <<life, dbh, stmts, estmts>>

dqlite__db_commit(d) ==
    /\ Running
    /\ Usable(d)
    /\ \E o \in dqlite__db_exec(d, "COMMIT") :
         /\ etx' = [etx EXCEPT ![d] = o.tx]
         /\ error' = [error EXCEPT ![d] = o.error]
         /\ IF o.rc # SQLITE_OK
            THEN IF o.rc = SQLITE_BUSY
                 THEN /\ failed' = "assert(rc != SQLITE_BUSY)"
                      /\ last' = Call("commit", d, ABORTED, o.rc)
                      /\ UNCHANGED <<in_a_tx, tx_refcount>>
                 ELSE /\ last' = Call("commit", d, o.rc, o.rc)
                      /\ UNCHANGED <<in_a_tx, tx_refcount, failed>>
            ELSE IF in_a_tx[d] # 1
            THEN /\ failed' = "assert(db->in_a_tx == 1)"
                 /\ last' = Call("commit", d, ABORTED, o.rc)
                 /\ UNCHANGED <<in_a_tx, tx_refcount>>
            ELSE /\ in_a_tx' = [in_a_tx EXCEPT ![d] = 0]
                 /\ tx_refcount' = dqlite__db_update_tx_refcount(-1)
                 /\ last' = Call("commit", d, SQLITE_OK, o.rc)
                 /\ UNCHANGED failed
    /\ UNCHANGED <<life, dbh, stmts, estmts>>

\* Faulty variant of dqlite__db_rollback: a failed ROLLBACK returns before the flag
\* and the refcount are touched.
rollback_returns_early(d) ==
    /\ Running
    /\ Usable(d)
    /\ tx_refcount > -MaxUnderflow
    /\ \E o \in dqlite__db_exec(d, "ROLLBACK") :
         /\ etx' = [etx EXCEPT ![d] = o.tx]
         /\ error' = [error EXCEPT ![d] = o.error]
         /\ IF o.rc # SQLITE_OK
            THEN UNCHANGED <<in_a_tx, tx_refcount>>
            ELSE /\ in_a_tx' = [in_a_tx EXCEPT ![d] = 0]
                 /\ tx_refcount' = dqlite__db_update_tx_refcount(-1)
         /\ last' = Call("rollback", d, o.rc, o.rc)
    /\ UNCHANGED <<life, dbh, stmts, estmts, failed>>

\* Faulty variant of dqlite__db_rollback: the rollback also closes the statement
\* registry of the Database.
rollback_closes_registry(d) ==
    /\ Running
    /\ Usable(d)
    /\ tx_refcount > -MaxUnderflow
    /\ \E o \in dqlite__db_exec(d, "ROLLBACK") :
         /\ etx' = [etx EXCEPT ![d] = o.tx]
         /\ error' = [error EXCEPT ![d] = o.error]
         /\ in_a_tx' = [in_a_tx EXCEPT ![d] = 0]
         /\ tx_refcount' = dqlite__db_update_tx_refcount(-1)
         /\ last' = Call("rollback", d, o.rc, o.rc)
    /\ stmts' = [stmts EXCEPT ![d] = <<>>]
    /\ estmts' = [estmts EXCEPT ![d] = {}]
    /\ UNCHANGED <<life, dbh, failed>>

dqlite__db_rollback(d) ==
    /\ Running
    /\ Usable(d)
    /\ tx_refcount > -MaxUnderflow
    /\ \E o \in dqlite__db_exec(d, "ROLLBACK") :
         /\ etx' = [etx EXCEPT ![d] = o.tx]
         /\ error' = [error EXCEPT ![d] = o.error]
         /\ in_a_tx' = [in_a_tx EXCEPT ![d] = 0]
         /\ tx_refcount' = dqlite__db_update_tx_refcount(-1)
         /\ last' = Call("rollback", d, o.rc, o.rc)
    /\ UNCHANGED <<life, dbh, stmts, estmts, failed>>

\* -------------------------------------------------------- statement registry
\* sqlite3_finalize(stmt): the engine releases compiled statement h; twice
\* tells that h was no live statement of the connection any more.
sqlite3_finalize(es, h) == [es |-> es \ {h}, twice |-> h \notin es]

\* The lowest ID no live statement of the registry has.
LowestFreeId(reg) ==
    LET used == {reg[k].id : k \in 1..Len(reg)}
    IN  CHOOSE i \in 0..Len(reg) : i \notin used /\ \A j \in 0..(i - 1) : j \in used

\* dqlite__stmt_registry_add: a new, empty statement under the lowest free ID.
dqlite__stmt_registry_add(reg) ==
    Append(reg, [id |-> LowestFreeId(reg), stmt |-> NullStmt])

\* dqlite__stmt_registry_get: the place in the registry of the statement with
\* that ID (its pointer), or NotFound.
dqlite__stmt_registry_get(reg, id) ==
    IF \E k \in 1..Len(reg) : reg[k].id = id
    THEN CHOOSE k \in 1..Len(reg) : reg[k].id = id
    ELSE NotFound

\* dqlite__stmt_registry_del: destroys the statement at place k; one that
\* still holds a compiled statement has it finalized on the way.
dqlite__stmt_registry_del(reg, es, k) ==
    IF k \notin 1..Len(reg)
    THEN [reg |-> reg, es |-> es, twice |-> FALSE, err |-> "DQLITE_NOT_FOUND"]
    ELSE LET f == IF reg[k].stmt # NullStmt
                  THEN sqlite3_finalize(es, reg[k].stmt)
                  ELSE [es |-> es, twice |-> FALSE]
         IN  [reg |-> SubSeq(reg, 1, k - 1) \o SubSeq(reg, k + 1, Len(reg)),
              es |-> f.es, twice |-> f.twice, err |-> "0"]

\* dqlite__stmt_registry_close: destroys every statement of the registry.
RECURSIVE dqlite__stmt_registry_close(_, _)
dqlite__stmt_registry_close(reg, es) ==
    IF reg = <<>> THEN [reg |-> reg, es |-> es, twice |-> FALSE]
    ELSE LET r == dqlite__stmt_registry_del(reg, es, 1)
             rest == dqlite__stmt_registry_close(r.reg, r.es)
         IN  [rest EXCEPT !.twice = @ \/ r.twice]

\* The SQL texts a caller hands to prepare: a statement, text that holds no
\* statement, and text that does not compile.
SqlTexts == {"SELECT 1", "", "SELEC 1"}

\* sqlite3_prepare_v2: the answers [rc, compiles].  Text that holds no
\* statement yields a NULL compiled statement with SQLITE_OK.
sqlite3_prepare_v2(sql) ==
    CASE sql = "SELECT 1" -> {[rc |-> SQLITE_OK, compiles |-> TRUE]}
                             \cup {[rc |-> r, compiles |-> FALSE] : r \in FailCodes}
      [] sql = "" -> {[rc |-> SQLITE_OK, compiles |-> FALSE]}
      [] OTHER -> {[rc |-> SQLITE_ERROR, compiles |-> FALSE]}

\* The pointer of a newly compiled statement: the lowest one not in use.
NewStmt(es) ==
    CHOOSE h \in 1..(Cardinality(es) + 1) : h \notin es /\ \A k \in 1..(h - 1) : k \in es

\* Faulty variant of dqlite__db_prepare: a failed compilation leaves the entry in the
\* registry.
prepare_keeps_failed_entry(d, sql) ==
    /\ Running
    /\ Usable(d)
    /\ Len(stmts[d]) < MaxStmts
    /\ \/ \* dqlite__stmt_registry_add could not allocate
          /\ error' = [error EXCEPT ![d] = <<"unable to register statement">>]
          /\ last' = Call("prepare", d, SQLITE_NOMEM, "-")
          /\ UNCHANGED <<stmts, estmts>>
       \/ \E o \in sqlite3_prepare_v2(sql) :
            LET added == dqlite__stmt_registry_add(stmts[d])
                stmt == Len(added)
                h == IF o.compiles THEN NewStmt(estmts[d]) ELSE NullStmt
                es == IF o.compiles THEN estmts[d] \cup {h} ELSE estmts[d]
            IN  IF o.rc # SQLITE_OK
                THEN LET r == [reg |-> added, es |-> es]
                     IN  /\ error' = [error EXCEPT ![d] =
                                        dqlite__error_printf(sqlite3_errmsg)]
                         /\ stmts' = [stmts EXCEPT ![d] = r.reg]
                         /\ estmts' = [estmts EXCEPT ![d] = r.es]
                         /\ last' = Call("prepare", d, o.rc, o.rc)
                ELSE /\ stmts' = [stmts EXCEPT ![d] = [added EXCEPT ![stmt].stmt = h]]
                     /\ estmts' = [estmts EXCEPT ![d] = es]
                     /\ last' = [Call("prepare", d, SQLITE_OK, o.rc) EXCEPT
                                   !.id = added[stmt].id, !.held = o.compiles]
                     /\ UNCHANGED error
    /\ UNCHANGED <<life, dbh, in_a_tx, etx, tx_refcount, failed>>

\* Faulty variant of dqlite__db_prepare: the statement text is compiled before the
\* result of dqlite__stmt_registry_add is looked at.
prepare_compiles_before_check(d, sql) ==
    /\ Running
    /\ Usable(d)
    /\ Len(stmts[d]) < MaxStmts
    /\ \/ \E o \in sqlite3_prepare_v2(sql) :
            /\ error' = [error EXCEPT ![d] = <<"unable to register statement">>]
            /\ last' = Call("prepare", d, SQLITE_NOMEM, o.rc)
            /\ UNCHANGED <<stmts, estmts>>
       \/ \E o \in sqlite3_prepare_v2(sql) :
            LET added == dqlite__stmt_registry_add(stmts[d])
                stmt == Len(added)
                h == IF o.compiles THEN NewStmt(estmts[d]) ELSE NullStmt
                es == IF o.compiles THEN estmts[d] \cup {h} ELSE estmts[d]
            IN  IF o.rc # SQLITE_OK
                THEN LET r == dqlite__stmt_registry_del(added, es, stmt)
                     IN  /\ error' = [error EXCEPT ![d] =
                                        dqlite__error_printf(sqlite3_errmsg)]
                         /\ stmts' = [stmts EXCEPT ![d] = r.reg]
                         /\ estmts' = [estmts EXCEPT ![d] = r.es]
                         /\ last' = Call("prepare", d, o.rc, o.rc)
                ELSE /\ stmts' = [stmts EXCEPT ![d] = [added EXCEPT ![stmt].stmt = h]]
                     /\ estmts' = [estmts EXCEPT ![d] = es]
                     /\ last' = [Call("prepare", d, SQLITE_OK, o.rc) EXCEPT
                                   !.id = added[stmt].id, !.held = o.compiles]
                     /\ UNCHANGED error
    /\ UNCHANGED <<life, dbh, in_a_tx, etx, tx_refcount, failed>>

dqlite__db_prepare(d, sql) ==
    /\ Running
    /\ Usable(d)
    /\ Len(stmts[d]) < MaxStmts
    /\ \/ \* dqlite__stmt_registry_add could not allocate
          /\ error' = [error EXCEPT ![d] = <<"unable to register statement">>]
          /\ last' = Call("prepare", d, SQLITE_NOMEM, "-")
          /\ UNCHANGED <<stmts, estmts>>
       \/ \E o \in sqlite3_prepare_v2(sql) :
            LET added == dqlite__stmt_registry_add(stmts[d])
                stmt == Len(added)
                h == IF o.compiles THEN NewStmt(estmts[d]) ELSE NullStmt
                es == IF o.compiles THEN estmts[d] \cup {h} ELSE estmts[d]
            IN  IF o.rc # SQLITE_OK
                THEN LET r == dqlite__stmt_registry_del(added, es, stmt)
                     IN  /\ error' = [error EXCEPT ![d] =
                                        dqlite__error_printf(sqlite3_errmsg)]
                         /\ stmts' = [stmts EXCEPT ![d] = r.reg]
                         /\ estmts' = [estmts EXCEPT ![d] = r.es]
                         /\ last' = Call("prepare", d, o.rc, o.rc)
                ELSE /\ stmts' = [stmts EXCEPT ![d] = [added EXCEPT ![stmt].stmt = h]]
                     /\ estmts' = [estmts EXCEPT ![d] = es]
                     /\ last' = [Call("prepare", d, SQLITE_OK, o.rc) EXCEPT
                                   !.id = added[stmt].id, !.held = o.compiles]
                     /\ UNCHANGED error
    /\ UNCHANGED <<life, dbh, in_a_tx, etx, tx_refcount, failed>>

\* dqlite__db_stmt(db, stmt_id): lookup by ID.
dqlite__db_stmt(d, stmt_id) == dqlite__stmt_registry_get(stmts[d], stmt_id)

\* A caller looks a statement up by an ID of its choosing; the record keeps
\* the ID when a statement was found.
Lookup(d, stmt_id) ==
    /\ Running
    /\ Usable(d)
    /\ last' = [Call("stmt", d, SQLITE_OK, "-") EXCEPT
                  !.id = IF dqlite__db_stmt(d, stmt_id) # NotFound
                         THEN stmt_id ELSE NotFound]
    /\ UNCHANGED <<life, dbh, in_a_tx, etx, tx_refcount, stmts, estmts, error, failed>>

\* Faulty variant of dqlite__db_finalize: a failed sqlite3_finalize returns before the
\* entry is deleted.
finalize_returns_on_error(d, id) ==
    /\ Running
    /\ Usable(d)
    /\ dqlite__db_stmt(d, id) # NotFound
    /\ \E erc \in {SQLITE_OK} \cup FailCodes :
         LET stmt == dqlite__db_stmt(d, id)
             held == stmts[d][stmt].stmt # NullStmt
             rc == IF held THEN erc ELSE SQLITE_OK
             f == IF held THEN sqlite3_finalize(estmts[d], stmts[d][stmt].stmt)
                  ELSE [es |-> estmts[d], twice |-> FALSE]
             reg == [stmts[d] EXCEPT ![stmt].stmt = NullStmt]
             r == IF rc # SQLITE_OK
                  THEN [reg |-> reg, es |-> f.es, twice |-> FALSE, err |-> "0"]
                  ELSE dqlite__stmt_registry_del(reg, f.es, stmt)
             call == [Call("finalize", d, rc, IF held THEN erc ELSE "-") EXCEPT
                        !.id = id, !.held = held]
         IN  /\ held \/ erc = SQLITE_OK
             /\ error' = [error EXCEPT ![d] =
                            IF rc # SQLITE_OK
                            THEN dqlite__error_printf(sqlite3_errmsg) ELSE @]
             /\ stmts' = [stmts EXCEPT ![d] = r.reg]
             /\ estmts' = [estmts EXCEPT ![d] = r.es]
             /\ IF f.twice \/ r.twice
                THEN /\ failed' = "fault: sqlite3_finalize of a released statement"
                     /\ last' = [call EXCEPT !.rc = ABORTED]
                ELSE IF r.err # "0"
                THEN /\ failed' = "assert(err == 0)"
                     /\ last' = [call EXCEPT !.rc = ABORTED]
                ELSE /\ last' = call
                     /\ UNCHANGED failed
    /\ UNCHANGED <<life, dbh, in_a_tx, etx, tx_refcount>>

\* Faulty variant of dqlite__db_finalize: stmt->stmt is not set to NULL after
\* sqlite3_finalize, so the registry finalizes the statement again.
finalize_keeps_stmt_pointer(d, id) ==
    /\ Running
    /\ Usable(d)
    /\ dqlite__db_stmt(d, id) # NotFound
    /\ \E erc \in {SQLITE_OK} \cup FailCodes :
         LET stmt == dqlite__db_stmt(d, id)
             held == stmts[d][stmt].stmt # NullStmt
             rc == IF held THEN erc ELSE SQLITE_OK
             f == IF held THEN sqlite3_finalize(estmts[d], stmts[d][stmt].stmt)
                  ELSE [es |-> estmts[d], twice |-> FALSE]
             reg == stmts[d]
             r == dqlite__stmt_registry_del(reg, f.es, stmt)
             call == [Call("finalize", d, rc, IF held THEN erc ELSE "-") EXCEPT
                        !.id = id, !.held = held]
         IN  /\ held \/ erc = SQLITE_OK
             /\ error' = [error EXCEPT ![d] =
                            IF rc # SQLITE_OK
                            THEN dqlite__error_printf(sqlite3_errmsg) ELSE @]
             /\ stmts' = [stmts EXCEPT ![d] = r.reg]
             /\ estmts' = [estmts EXCEPT ![d] = r.es]
             /\ IF f.twice \/ r.twice
                THEN /\ failed' = "fault: sqlite3_finalize of a released statement"
                     /\ last' = [call EXCEPT !.rc = ABORTED]
                ELSE IF r.err # "0"
                THEN /\ failed' = "assert(err == 0)"
                     /\ last' = [call EXCEPT !.rc = ABORTED]
                ELSE /\ last' = call
                     /\ UNCHANGED failed
    /\ UNCHANGED <<life, dbh, in_a_tx, etx, tx_refcount>>

\* dqlite__db_finalize(db, stmt), stmt being the statement dqlite__db_stmt
\* returned for id.
dqlite__db_finalize(d, id) ==
    /\ Running
    /\ Usable(d)
    /\ dqlite__db_stmt(d, id) # NotFound
    /\ \E erc \in {SQLITE_OK} \cup FailCodes :
         LET stmt == dqlite__db_stmt(d, id)
             held == stmts[d][stmt].stmt # NullStmt
             rc == IF held THEN erc ELSE SQLITE_OK
             f == IF held THEN sqlite3_finalize(estmts[d], stmts[d][stmt].stmt)
                  ELSE [es |-> estmts[d], twice |-> FALSE]
             reg == [stmts[d] EXCEPT ![stmt].stmt = NullStmt]
             r == dqlite__stmt_registry_del(reg, f.es, stmt)
             call == [Call("finalize", d, rc, IF held THEN erc ELSE "-") EXCEPT
                        !.id = id, !.held = held]
         IN  /\ held \/ erc = SQLITE_OK
             /\ error' = [error EXCEPT ![d] =
                            IF rc # SQLITE_OK
                            THEN dqlite__error_printf(sqlite3_errmsg) ELSE @]
             /\ stmts' = [stmts EXCEPT ![d] = r.reg]
             /\ estmts' = [estmts EXCEPT ![d] = r.es]
             /\ IF f.twice \/ r.twice
                THEN /\ failed' = "fault: sqlite3_finalize of a released statement"
                     /\ last' = [call EXCEPT !.rc = ABORTED]
                ELSE IF r.err # "0"
                THEN /\ failed' = "assert(err == 0)"
                     /\ last' = [call EXCEPT !.rc = ABORTED]
                ELSE /\ last' = call
                     /\ UNCHANGED failed
    /\ UNCHANGED <<life, dbh, in_a_tx, etx, tx_refcount>>

\* ------------------------------------------------------------------- close
\* sqlite3_close: refused with SQLITE_BUSY while the connection still has
\* compiled statements that were not finalized.
sqlite3_close(es) == IF es # {} THEN SQLITE_BUSY ELSE SQLITE_OK

\* Faulty variant of dqlite__db_close: sqlite3_close is called before the registry is
\* closed.
close_engine_first(d) ==
    /\ Running
    /\ life[d] # "closed"
    /\ LET r == dqlite__stmt_registry_close(stmts[d], estmts[d])
           rc == sqlite3_close(estmts[d])
           call == [Call("close", d, SQLITE_OK, "-") EXCEPT !.held = estmts[d] # {}]
       IN  /\ stmts' = [stmts EXCEPT ![d] = r.reg]
           /\ estmts' = [estmts EXCEPT ![d] = r.es]
           /\ error' = [error EXCEPT ![d] = <<>>]
           /\ IF r.twice
              THEN /\ failed' = "fault: sqlite3_finalize of a released statement"
                   /\ last' = [call EXCEPT !.rc = ABORTED]
                   /\ UNCHANGED etx
              ELSE \/ \* db->db is NULL, or was never assigned and happens to read as NULL
                      /\ dbh[d] \in {"NULL", "unset"}
                      /\ last' = call
                      /\ UNCHANGED <<etx, failed>>
                   \/ \* db->db was never assigned and reads as a stray pointer
                      /\ dbh[d] = "unset"
                      /\ failed' = "fault: sqlite3_close of an unset db->db"
                      /\ last' = [call EXCEPT !.rc = ABORTED]
                      /\ UNCHANGED etx
                   \/ /\ dbh[d] \in {"conn", "bad"}
                      /\ IF rc # SQLITE_OK
                         THEN /\ failed' = "assert(rc == SQLITE_OK)"
                              /\ last' = [call EXCEPT !.rc = ABORTED, !.erc = rc]
                              /\ UNCHANGED etx
                         ELSE /\ etx' = [etx EXCEPT ![d] = FALSE]
                              /\ last' = [call EXCEPT !.erc = rc]
                              /\ UNCHANGED failed
    /\ life' = [life EXCEPT ![d] = "closed"]
    /\ UNCHANGED <<dbh, in_a_tx, tx_refcount>>

dqlite__db_close(d) ==
    /\ Running
    /\ life[d] # "closed"
    /\ LET r == dqlite__stmt_registry_close(stmts[d], estmts[d])
           rc == sqlite3_close(r.es)
           call == [Call("close", d, SQLITE_OK, "-") EXCEPT !.held = estmts[d] # {}]
       IN  /\ stmts' = [stmts EXCEPT ![d] = r.reg]
           /\ estmts' = [estmts EXCEPT ![d] = r.es]
           /\ error' = [error EXCEPT ![d] = <<>>]
           /\ IF r.twice
              THEN /\ failed' = "fault: sqlite3_finalize of a released statement"
                   /\ last' = [call EXCEPT !.rc = ABORTED]
                   /\ UNCHANGED etx
              ELSE \/ \* db->db is NULL, or was never assigned and happens to read as NULL
                      /\ dbh[d] \in {"NULL", "unset"}
                      /\ last' = call
                      /\ UNCHANGED <<etx, failed>>
                   \/ \* db->db was never assigned and reads as a stray pointer
                      /\ dbh[d] = "unset"
                      /\ failed' = "fault: sqlite3_close of an unset db->db"
                      /\ last' = [call EXCEPT !.rc = ABORTED]
                      /\ UNCHANGED etx
                   \/ /\ dbh[d] \in {"conn", "bad"}
                      /\ IF rc # SQLITE_OK
                         THEN /\ failed' = "assert(rc == SQLITE_OK)"
                              /\ last' = [call EXCEPT !.rc = ABORTED, !.erc = rc]
                              /\ UNCHANGED etx
                         ELSE /\ etx' = [etx EXCEPT ![d] = FALSE]
                              /\ last' = [call EXCEPT !.erc = rc]
                              /\ UNCHANGED failed
    /\ life' = [life EXCEPT ![d] = "closed"]
    /\ UNCHANGED <<dbh, in_a_tx, tx_refcount>>

\* ---------------------------------------------------------- specifications
\* The Database whose calls Spec follows.
Db == CHOOSE d \in DBs : \A e \in DBs : d <= e

Next ==
    \/ dqlite__db_open(Db)
    \/ \E sql \in SqlTexts : dqlite__db_prepare(Db, sql)
    \/ \E id \in 0..MaxStmts : Lookup(Db, id)
    \/ \E id \in Ids : dqlite__db_finalize(Db, id)
    \/ dqlite__db_begin(Db)
    \/ dqlite__db_commit(Db)
    \/ dqlite__db_rollback(Db)
    \/ dqlite__db_close(Db)

Spec == Init /\ [][Next]_vars

NextShared ==
    \E d \in DBs :
        \/ dqlite__db_open(d)
        \/ dqlite__db_begin(d)
        \/ dqlite__db_commit(d)
        \/ dqlite__db_rollback(d)
        \/ dqlite__db_close(d)

SpecShared == Init /\ [][NextShared]_vars

\* ------------------------------------------------------------------ claims
\* The Database the last call was made on (Db before any call).
LastDb == IF last.db \in DBs THEN last.db ELSE Db

\* The call before the last one was a successful begin on the same Database,
\* made while in_a_tx was 0.
BeganJustBefore == last.began.ok

\* C1 (as claimed): while the process runs, in_a_tx of every Database that
\* is not closed is 1 exactly when its engine connection has a transaction
\* open; in particular it is 0 before any call.
C1_InATxAgreesWithEngine ==
    Running => \A d \in DBs : life[d] # "closed" => (in_a_tx[d] = 1 <=> etx[d])

\* C2: a successful begin made with in_a_tx 0 and refcount r leaves in_a_tx 1
\* and the refcount r + 1 until the next call; when the next call on that
\* Database is a successful commit, or a rollback, in_a_tx is 0 and the
\* refcount is r again.
C2_BalancedTxNetZero ==
    /\ last.op = "begin" /\ last.rc = SQLITE_OK /\ last.pre_tx = 0
         => in_a_tx[LastDb] = 1 /\ tx_refcount = last.pre_ref + 1
    /\ /\ BeganJustBefore
       /\ \/ last.op = "commit" /\ last.rc = SQLITE_OK
          \/ last.op = "rollback"
       => in_a_tx[LastDb] = 0 /\ tx_refcount = last.began.pre_ref

C2_Witness ==
    /\ BeganJustBefore
    /\ last.op = "commit"
    /\ last.rc = SQLITE_OK
    /\ tx_refcount = last.began.pre_ref

\* C3: a begin made while in_a_tx is 1 leaves in_a_tx and the refcount as they
\* were, and either returns the engine's error code or ends the process on
\* the assertion db->in_a_tx == 0; it never returns SQLITE_OK.
C3_BeginInTxRejected ==
    last.op = "begin" /\ last.pre_tx = 1
      => /\ in_a_tx[LastDb] = 1
         /\ tx_refcount = last.pre_ref
         /\ \/ last.rc \in FailCodes /\ last.rc = last.erc /\ Running
            \/ last.rc = ABORTED /\ failed = "assert(db->in_a_tx == 0)"

C3_Witness ==
    last.op = "begin" /\ last.pre_tx = 1 /\ last.rc = SQLITE_ERROR /\ Running

\* C4: after a rollback in_a_tx is 0, the refcount is one less than before
\* the call and the call returned the engine's code, whether that is
\* SQLITE_OK or an error; when the rollback directly follows a successful
\* begin the refcount is back at its value before the begin.
C4_RollbackAlwaysClears ==
    last.op = "rollback"
      => /\ in_a_tx[LastDb] = 0
         /\ tx_refcount = last.pre_ref - 1
         /\ last.rc = last.erc
         /\ BeganJustBefore => tx_refcount = last.began.pre_ref

C4_Witness ==
    last.op = "rollback" /\ last.rc \in FailCodes /\ BeganJustBefore

\* C5 (as claimed): after a close that returned, the Database has no live
\* statement, the engine holds no compiled statement of it, and the
\* refcount no longer counts the transaction the Database had open.
C5_CloseLeavesNothingBehind ==
    last.op = "close" /\ last.rc = SQLITE_OK
      => /\ stmts[LastDb] = <<>>
         /\ estmts[LastDb] = {}
         /\ tx_refcount = last.pre_ref - last.pre_tx

\* C6: a prepare that fails leaves the live statements as they were and, when
\* the engine was asked, returns the engine's code; a prepare that succeeds
\* adds exactly one live statement, under an ID that was not live, and that
\* statement is the one returned.
C6_PrepareKeepsRegistryAndEngineAgreed ==
    last.op = "prepare"
      => /\ last.rc # SQLITE_OK
              => /\ LiveIds(LastDb) = last.pre_ids
                 /\ Len(stmts[LastDb]) = Cardinality(last.pre_ids)
                 /\ last.erc # "-" => last.rc = last.erc
         /\ last.rc = SQLITE_OK
              => /\ last.id \notin last.pre_ids
                 /\ LiveIds(LastDb) = last.pre_ids \cup {last.id}
                 /\ Len(stmts[LastDb]) = Cardinality(last.pre_ids) + 1
                 /\ dqlite__db_stmt(LastDb, last.id) = Len(stmts[LastDb])
                 /\ last.erc = SQLITE_OK

C6_Witness ==
    /\ last.op = "prepare"
    /\ last.erc \in FailCodes
    /\ last.pre_ids # {}
    /\ LiveIds(LastDb) = last.pre_ids

\* C7: a finalize returns (the assertion on the registry does not fire), the
\* statement's entry is gone and its ID is not found afterwards; the call
\* returns the engine's code when the statement held a compiled statement,
\* and SQLITE_OK without asking the engine when it held none.
C7_FinalizeAlwaysRemoves ==
    last.op = "finalize"
      => /\ last.rc # ABORTED
         /\ dqlite__db_stmt(LastDb, last.id) = NotFound
         /\ LiveIds(LastDb) = last.pre_ids \ {last.id}
         /\ Len(stmts[LastDb]) = Cardinality(last.pre_ids) - 1
         /\ last.held => last.rc = last.erc
         /\ ~last.held => last.rc = SQLITE_OK /\ last.erc = "-"

C7_Witness ==
    /\ last.op = "finalize"
    /\ last.held
    /\ last.rc \in FailCodes
    /\ dqlite__db_stmt(LastDb, last.id) = NotFound

\* C8: the live statements of a Database have pairwise distinct IDs; an ID
\* that is looked up resolves to a live statement with that ID or to
\* nothing, and to nothing right after its statement was finalized; a
\* prepare never hands out the ID of a statement that is live; and the
\* number of live statements goes up by one with each successful prepare,
\* down by one with each finalize, and is left alone by failed prepares,
\* lookups and transaction calls.
C8_LiveIdsDistinct ==
    \A d \in DBs :
      /\ \A j, k \in 1..Len(stmts[d]) : j # k => stmts[d][j].id # stmts[d][k].id
      /\ \A id \in 0..MaxStmts :
           dqlite__db_stmt(d, id) # NotFound => stmts[d][dqlite__db_stmt(d, id)].id = id
      /\ last.db = d /\ last.op = "finalize" => dqlite__db_stmt(d, last.id) = NotFound
      /\ last.db = d /\ last.op = "prepare" /\ last.rc = SQLITE_OK
           => last.id \notin last.pre_ids
      /\ last.db = d /\ last.op \notin {"none", "close"} /\ last.rc # ABORTED
           => Len(stmts[d]) = Cardinality(last.pre_ids)
                + (IF last.op = "prepare" /\ last.rc = SQLITE_OK THEN 1
                   ELSE IF last.op = "finalize" THEN -1 ELSE 0)

\* An ID is handed out again while another statement is still live.
C8_Witness ==
    /\ last.op = "prepare"
    /\ last.rc = SQLITE_OK
    /\ last.pre_ids # {}
    /\ \E i \in last.pre_ids : last.id < i

\* C9: the assertion on sqlite3_close never fires and no statement is
\* finalized twice: when close reaches sqlite3_close, every compiled
\* statement of the Database has been finalized, the registry is empty and
\* the engine answers SQLITE_OK.
C9_CloseFinalizesBeforeEngineClose ==
    /\ failed # "assert(rc == SQLITE_OK)"
    /\ failed # "fault: sqlite3_finalize of a released statement"
    /\ last.op = "close" /\ dbh[LastDb] \in {"conn", "bad"}
         => /\ last.rc = SQLITE_OK
            /\ last.erc = SQLITE_OK
            /\ stmts[LastDb] = <<>>
            /\ estmts[LastDb] = {}

\* A close of a Database that held compiled statements.
C9_Witness ==
    last.op = "close" /\ last.held /\ last.rc = SQLITE_OK /\ last.pre_ids # {}

\* The text that names configuration step n of open when it fails.
C10_StepPrefix(n) ==
    CASE n = 3 -> "unable to set page size"
      [] n = 4 -> "unable to switch off syncs"
      [] n = 5 -> "unable to set WAL mode: "
      [] n = 6 -> "unable to set WAL replication"
      [] n = 7 -> "unable to set foreign keys checks: "
      [] OTHER -> ""

\* C10 (as claimed): open makes its calls in order and stops at the first
\* that fails; it returns SQLITE_OK only after all of them, and when a
\* configuration step fails it returns that step's code and db->error holds
\* the step's prefix followed by the engine's error text.
C10_OpenStepFailureWrapsEngineText ==
    last.op = "open"
      => LET n == Len(last.steps)
             e == error[LastDb]
         IN  /\ last.steps = SubSeq(OpenSteps, 1, n)
             /\ last.rc = SQLITE_OK => n = Len(OpenSteps)
             /\ last.rc # SQLITE_OK /\ n >= 3
                  => /\ last.rc \in FailCodes
                     /\ last.rc = last.erc
                     /\ Len(e) > Len(sqlite3_errmsg)
                     /\ e[1] = C10_StepPrefix(n)
                     /\ SubSeq(e, Len(e) - Len(sqlite3_errmsg) + 1, Len(e)) = sqlite3_errmsg

\* C11 (as claimed): an answer of SQLITE_BUSY from the engine ends the process
\* on an assertion in commit and nowhere else; begin, rollback, prepare,
\* finalize and open return SQLITE_BUSY to their caller and the process goes on.
C11_BusyAssertedOnlyInCommit ==
    /\ failed = "assert(rc != SQLITE_BUSY)" => last.op = "commit"
    /\ last.erc = SQLITE_BUSY
         => IF last.op = "commit"
            THEN last.rc = ABORTED /\ failed = "assert(rc != SQLITE_BUSY)"
            ELSE /\ last.op \in {"begin", "rollback", "prepare", "finalize", "open"}
                 /\ last.rc = SQLITE_BUSY
                 /\ Running

\* C12 (as claimed): while the Databases sharing the file only begin, commit
\* and roll back, tx_refcount is the number of Databases whose in_a_tx is 1,
\* and so never below zero.
C12_RefcountCountsOpenTransactions ==
    (\A d \in DBs : life[d] # "closed")
      => /\ tx_refcount = Cardinality({d \in DBs : in_a_tx[d] = 1})
         /\ tx_refcount >= 0

\* C13 (as claimed): neither the assertion of begin (in_a_tx is 0 once BEGIN
\* was accepted) nor the assertion of commit (in_a_tx is 1 once COMMIT was
\* accepted) ever fails.
C13_StateAssertionsHold ==
    failed \notin {"assert(db->in_a_tx == 0)", "assert(db->in_a_tx == 1)"}

\* C14: a begin or a commit whose statement the engine refused (not with
\* SQLITE_BUSY, for commit) returns the engine's code and leaves in_a_tx and
\* tx_refcount as they were before the call.
C14_FailedBeginCommitChangeNothing ==
    /\ last.op \in {"begin", "commit"}
    /\ last.erc \in FailCodes
    /\ ~(last.op = "commit" /\ last.erc = SQLITE_BUSY)
    => /\ last.rc = last.erc
       /\ in_a_tx[LastDb] = last.pre_tx
       /\ tx_refcount = last.pre_ref
       /\ Running

\* A commit with no transaction open, refused by the engine.
C14_Witness ==
    /\ last.op = "commit" /\ last.pre_tx = 0 /\ last.rc = SQLITE_ERROR
    /\ in_a_tx[LastDb] = 0 /\ tx_refcount = last.pre_ref

\* C15: a compiled statement is never released twice; until it is released
\* exactly one registry entry holds it, and once the Database is closed no
\* compiled statement is left unreleased.
C15_CompiledStatementsReleasedOnce ==
    /\ failed # "fault: sqlite3_finalize of a released statement"
    /\ \A d \in DBs :
         LET held == {k \in 1..Len(stmts[d]) : stmts[d][k].stmt # NullStmt}
         IN  /\ estmts[d] = {stmts[d][k].stmt : k \in held}
             /\ \A j, k \in held : stmts[d][j].stmt = stmts[d][k].stmt => j = k
             /\ life[d] = "closed" => estmts[d] = {}

\* A close of a Database whose registry was full, some of its statements
\* compiled and not yet finalized.
C15_Witness ==
    /\ last.op = "close" /\ last.held /\ Running
    /\ Cardinality(last.pre_ids) = MaxStmts
    /\ estmts[LastDb] = {}

\* C16 (as claimed): close reads only a db->db that init or open assigned,
\* returns, and has called sqlite3_close exactly when the engine produced a
\* connection handle.
C16_CloseWellDefined ==
    last.op = "close"
      => /\ dbh[LastDb] # "unset"
         /\ last.rc = SQLITE_OK
         /\ last.erc # "-" <=> dbh[LastDb] \in {"conn", "bad"}

\* C17: a prepare returns SQLITE_NOMEM exactly when the registry could not
\* allocate the entry; the engine was then not asked to compile, and the live
\* statements are those of before the call.
C17_AllocationFailureLeavesRegistry ==
    last.op = "prepare"
      => /\ last.rc = SQLITE_NOMEM <=> last.erc = "-"
         /\ last.rc = SQLITE_NOMEM
              => /\ LiveIds(LastDb) = last.pre_ids
                 /\ Len(stmts[LastDb]) = Cardinality(last.pre_ids)
                 /\ Running

\* A prepare that failed to allocate while the registry held a statement.
C17_Witness ==
    /\ last.op = "prepare" /\ last.rc = SQLITE_NOMEM
    /\ last.pre_ids # {} /\ LiveIds(LastDb) = last.pre_ids

\* The operations on statements and the operations on transactions.
StmtOps == {"prepare", "stmt", "finalize"}
TxOps == {"begin", "commit", "rollback"}

\* C18: prepare, finalize and lookup change neither in_a_tx nor tx_refcount;
\* begin, commit and rollback change neither the registry nor the compiled
\* statements.
C18_StatementsAndTransactionsApart ==
    [][/\ last'.op \in StmtOps
            => in_a_tx' = in_a_tx /\ tx_refcount' = tx_refcount
       /\ last'.op \in TxOps
            => stmts' = stmts /\ estmts' = estmts]_vars

\* A rollback inside a transaction of a Database that holds a compiled
\* statement.
C18_Witness ==
    /\ last.op = "rollback" /\ last.pre_tx = 1
    /\ last.pre_ids # {} /\ LiveIds(LastDb) = last.pre_ids
    /\ estmts[LastDb] # {}

====
